---- MODULE Spec2Model ----
(***************************************************************************)
(* A model of the polling and tracking engine of py_tbot.                  *)
(*                                                                         *)
(*   BlockchainTracker  (src/src/core/blockchain/manager.py): the polling  *)
(*     loop start(), one _check_chain call per configured chain, the       *)
(*     per-chain checkpoint last_blocks, _should_track and                 *)
(*     _process_transaction.                                               *)
(*   The chain adapters (src/src/core/blockchain/adapters/): the block     *)
(*     ranges EthereumAdapter, CustomEVMAdapter and CustomWeb3Adapter scan *)
(*     and what they return when an RPC call fails.                        *)
(*   TokenTracker  (src/src/core/tracking/token_tracker.py): the polling   *)
(*     task _track_token of a tracked token, its filter                    *)
(*     _should_notify_transaction and its persisted last block; and        *)
(*     TokenMethodsMixin._get_erc20_transactions, which fetches and        *)
(*     classifies the token's Transfer events.                             *)
(*     add_tracking, remove_tracking, get_user_trackings and               *)
(*     get_tracking_stats maintain the rules and their subscribers.        *)
(*   CustomBlockchainManager  (custom_integration.py), RedisCache          *)
(*     (infrastructure/cache.py) and the Telegram command handlers         *)
(*     (interface/telegram/) that write the wallets and settings tables.   *)
(*                                                                         *)
(* The logger is outside the model: every logging call is taken to return  *)
(* normally, whatever arguments it is given.                               *)
(***************************************************************************)
EXTENDS Integers, Sequences, FiniteSets, TLC

VARIABLES
    last_blocks,            \* BlockchainTracker.last_blocks: dict chain -> height
    tracked_wallets_cache,  \* BlockchainTracker.tracked_wallets_cache: dict chain -> set
    active,                 \* BlockchainTracker.active
    pc,                     \* position of the tracker thread in start()
    idx,                    \* position of start()'s for loop in the chain list
    checked,                \* history: chains whose _check_chain was called in this pass
    cyc,                    \* history: what the last _check_chain call did
    tracking_configs,       \* TokenTracker.tracking_configs: dict tracking id -> config
    subscribers,            \* TokenTracker.subscribers: dict user id -> set of tracking ids
    active_trackers,        \* TokenTracker.active_trackers: the tracking ids that hold a task
    tasks,                  \* the _track_token tasks: dict tracking id -> its locals
    cache_last_block,       \* the cache keys last_block:<tracking id>
    tok,                    \* history: what the last iteration of a task did
    notified_before,        \* history: (user, hash) notified in earlier iterations
    orphans,                \* _track_token tasks that active_trackers no longer holds
    call,                   \* history: the last direct call of an operation and its result
    custom_chains,          \* CustomBlockchainManager.custom_chains: dict name -> adapter
    chain_configs,          \* CustomBlockchainManager.chain_configs: dict name -> config
    config_file,            \* the contents of config/custom_blockchains.json
    custom_adapters,        \* TokenTracker.blockchain_adapters.custom_adapters
    removed,                \* history: chains removed and not added again
    redis_available,        \* RedisCache.redis_available
    redis_store,            \* the keys the Redis server holds: dict key -> entry
    fallback_cache,         \* RedisCache.fallback_cache.cache: dict key -> entry
    now,                    \* time.time()
    expected,               \* history: per key, the value last set and its expiry
    tracking_paused,        \* the row tracking_paused of the settings table
    wallets_table,          \* the rows of the 'wallets' table: {address, blockchain}
    settings,               \* the rows admin_id and group_id of the settings table
    db_initialized          \* handlers._db is not None

trackerVars == <<last_blocks, tracked_wallets_cache, active, pc, idx, checked, cyc>>

tokenVars == <<tracking_configs, subscribers, active_trackers, tasks,
               cache_last_block, tok, notified_before, orphans>>

registryVars == <<custom_chains, chain_configs, config_file, custom_adapters, removed>>

redisVars == <<redis_available, redis_store, fallback_cache, now, expected>>

adminVars == <<settings, db_initialized>>

otherVars == <<registryVars, redisVars, tracking_paused, wallets_table, adminVars>>

vars == <<trackerVars, tokenVars, call, otherVars>>

(***************************************************************************)
(* Bounds of the model.                                                    *)
(***************************************************************************)
\* Heights an adapter reports, and block numbers, are in 0..MaxHeight.
MaxHeight == 11
\* At most this many notifications fail in one _check_chain call.
MaxSendFailures == 1
\* Heights of the token's chain, and its block numbers, are in 0..MaxTokenHeight.
MaxTokenHeight == 4

(***************************************************************************)
(* Program constants.                                                      *)
(***************************************************************************)
\* CustomEVMAdapter.get_transactions scans range(start, min(end + 1, start + 10)).
EVMScanCap == 10
\* CustomWeb3Adapter.get_transactions scans range(start, min(end + 1, start + 5)).
Web3ScanCap == 5

\* The rows of the 'blockchains' table, in the order start() iterates them.
ChainList == <<"Ethereum", "MyEVM", "MyWeb3">>

Chains == {ChainList[i] : i \in 1..Len(ChainList)}

\* The adapter class BlockchainAdapters.get_adapter returns for a chain.
AdapterKind(chain) ==
    CASE chain = "Ethereum" -> "EthereumAdapter"
      [] chain = "MyEVM"    -> "CustomEVMAdapter"
      [] OTHER              -> "CustomWeb3Adapter"

\* settings.TRACKED_CURRENCIES (two of its members; "SHIB" below is not one).
TRACKED_CURRENCIES == {"ETH", "USDT"}

\* The settings table holds no admin_id and no group_id row before the bot is
\* added to a group, and handlers.get_db() has not been called.
InitSettings == settings = << >> /\ db_initialized = FALSE

\* The 'wallets' table when the bot starts: one tracked wallet on each chain.
InitWallets ==
    wallets_table = {[address |-> "0xAAA", blockchain |-> chain] : chain \in Chains}

\* db.execute('wallets', 'select', {'blockchain': chain}): the addresses of
\* the rows of a chain.
DbWallets(chain) == {w.address : w \in {r \in wallets_table : r.blockchain = chain}}

Min(a, b) == IF a <= b THEN a ELSE b

(***************************************************************************)
(* The ledger: the normalized transactions of block b, as an adapter       *)
(* formats them ({hash, to, currency, block}).  Four kinds of block:       *)
(* one matching transaction; one to an untracked wallet; one in an         *)
(* untracked currency followed by a matching one; an empty block.          *)
(***************************************************************************)
Tx(h, t, cur, b) == [hash |-> h, to |-> t, currency |-> cur, block |-> b]

ChainTxs(b) ==
    CASE b % 4 = 1 -> << Tx(b * 10, "0xAAA", "ETH", b) >>
      [] b % 4 = 2 -> << Tx(b * 10, "0xBBB", "ETH", b) >>
      [] b % 4 = 3 -> << Tx(b * 10, "0xAAA", "SHIB", b), Tx(b * 10 + 1, "0xAAA", "USDT", b) >>
      [] OTHER     -> << >>

(***************************************************************************)
(* The adapters' get_transactions(start_block, end_block).  failAt is the  *)
(* block whose RPC call raises (0: none does), or NotConnected.            *)
(***************************************************************************)
\* A custom adapter finds its node unreachable when get_transactions starts
\* (not self.web3.is_connected(), or every RPC call failing) and returns [].
NotConnected == -1

\* The last block the adapter's for loop visits.
ScanEnd(kind, start, end) ==
    CASE kind = "CustomEVMAdapter"  -> Min(end, start + EVMScanCap - 1)
      [] kind = "CustomWeb3Adapter" -> Min(end, start + Web3ScanCap - 1)
      [] OTHER                      -> end

\* The blocks whose transactions the call returns.  EthereumAdapter wraps the
\* whole loop in one try: the first failing block ends the scan and the
\* transactions collected so far are returned.  The custom adapters wrap each
\* block: a failing block is logged and skipped.
ScannedBlocks(kind, start, end, failAt) ==
    IF kind = "EthereumAdapter"
    THEN {b \in start..end : failAt = 0 \/ b < failAt}
    ELSE IF failAt = NotConnected THEN {}
    ELSE {b \in start..ScanEnd(kind, start, end) : b # failAt}

\* The ways a fetch of start..end can fail (0: it does not).
FetchFailures(kind, start, end) ==
    {0} \cup start..ScanEnd(kind, start, end)
        \cup (IF kind = "EthereumAdapter" THEN {} ELSE {NotConnected})

RECURSIVE TxsOfBlocks(_, _, _)
TxsOfBlocks(blocks, from, to) ==
    IF from > to THEN << >>
    ELSE (IF from \in blocks THEN ChainTxs(from) ELSE << >>)
         \o TxsOfBlocks(blocks, from + 1, to)

get_transactions(kind, start, end, failAt) ==
    TxsOfBlocks(ScannedBlocks(kind, start, end, failAt), start, end)

(***************************************************************************)
(* BlockchainTracker                                                       *)
(***************************************************************************)
\* dict.get(key, default)
DictGet(d, key, default) == IF key \in DOMAIN d THEN d[key] ELSE default

\* d[key] = value
DictSet(d, key, value) ==
    [k \in DOMAIN d \cup {key} |-> IF k = key THEN value ELSE d[k]]

\* del d[key]
DictDel(d, key) == [k \in DOMAIN d \ {key} |-> d[k]]

EmptyDict == << >>

should_track_any_currency(tx, wallets) == tx.to \in wallets

\* _should_track, given the cached wallet set of the chain.
should_track(tx, wallets) ==
    tx.to \in wallets /\ tx.currency \in TRACKED_CURRENCIES

\* The transactions of txs that _should_track accepts, in order.
SelectTracked(txs, wallets) == SelectSeq(txs, LAMBDA tx : should_track(tx, wallets))

\* The hashes of a sequence of transactions, in order.
Hashes(txs) == [i \in 1..Len(txs) |-> txs[i].hash]

\* _process_transaction over the tracked transactions: notifier.send is called
\* once per transaction; a send that raises is caught and logged.  failing is
\* the set of hashes whose send raises.
SentHashes(tracked, failing) ==
    Hashes(SelectSeq(tracked, LAMBDA tx : tx.hash \notin failing))

\* The sets of notifications that fail in one call: at most MaxSendFailures of
\* the hashes sent.
SendFailures(hashes) == {F \in SUBSET hashes : Cardinality(F) <= MaxSendFailures}

NoCycle ==
    [chain |-> "none", had |-> FALSE, before |-> 0, height |-> 0, fetched |-> FALSE,
     lo |-> 0, hi |-> 0, scanned |-> {}, failAt |-> 0, txs |-> << >>,
     attempted |-> << >>, sendFailed |-> FALSE, sent |-> << >>, raised |-> FALSE]

\* The checkpoint _check_chain stores at its end: last_blocks[chain] = current_block.
NewCheckpoint(last_block, current_block) == current_block

ShouldScanOnChange(last_block, current_block) == current_block # last_block

\* Whether _check_chain scans: current_block > last_block.
ShouldScan(last_block, current_block) == current_block > last_block

(***************************************************************************)
(* _check_chain(chain).  Inputs: current_block, the height the adapter     *)
(* reports (0 when its RPC call fails), and exc, the exception the call    *)
(* raises: "adapter" from _get_adapter (unsupported chain), "wallets" from *)
(* the wallets query of _should_track, "none".  Drawn inside: failAt, the  *)
(* way the fetch fails (0: it does not), and failing,                      *)
(* the hashes whose notification fails.                                    *)
(***************************************************************************)
check_chain(chain, current_block, exc) ==
    LET had        == chain \in DOMAIN last_blocks
        last_block == DictGet(last_blocks, chain, current_block)
        kind       == AdapterKind(chain)
        loaded     == chain \in DOMAIN tracked_wallets_cache
        wallets    == DictGet(tracked_wallets_cache, chain, DbWallets(chain))
        base       == [NoCycle EXCEPT !.chain = chain, !.had = had,
                                      !.before = last_block, !.height = current_block]
    IN
    IF exc = "adapter"
    THEN /\ cyc' = [base EXCEPT !.raised = TRUE, !.height = 0]
         /\ UNCHANGED <<last_blocks, tracked_wallets_cache>>
    ELSE IF ~ShouldScan(last_block, current_block)
    THEN /\ exc = "none"
         /\ cyc' = base
         /\ UNCHANGED <<last_blocks, tracked_wallets_cache>>
    ELSE \E failAt \in FetchFailures(kind, last_block + 1, current_block) :
         LET txs     == get_transactions(kind, last_block + 1, current_block, failAt)
             tracked == SelectTracked(txs, wallets)
             ran     == [base EXCEPT !.fetched = TRUE, !.lo = last_block + 1,
                                     !.hi = current_block, !.failAt = failAt,
                                     !.scanned = ScannedBlocks(kind, last_block + 1,
                                                               current_block, failAt),
                                     !.txs = txs]
         IN
         IF exc = "wallets"
         THEN \* the wallets query runs at the first transaction of a chain
              \* that is not cached yet
              /\ ~loaded /\ txs # << >>
              /\ cyc' = [ran EXCEPT !.raised = TRUE]
              /\ UNCHANGED <<last_blocks, tracked_wallets_cache>>
         ELSE \E failing \in SendFailures({tracked[i].hash : i \in 1..Len(tracked)}) :
              /\ tracked_wallets_cache' =
                     IF txs # << >> /\ ~loaded
                     THEN DictSet(tracked_wallets_cache, chain, DbWallets(chain))
                     ELSE tracked_wallets_cache
              /\ cyc' = [ran EXCEPT !.attempted = Hashes(tracked),
                                     !.sendFailed = (failing # {}),
                                     !.sent = SentHashes(tracked, failing)]
              /\ last_blocks' = DictSet(last_blocks, chain,
                                        NewCheckpoint(last_block, current_block))

(***************************************************************************)
(* BlockchainTracker.start(): while self.active, read the chain list,      *)
(* check each chain in turn, sleep 12 s; any exception ends the pass and   *)
(* the loop sleeps 5 s before the next one.                                *)
(***************************************************************************)
\* The while test and the 'blockchains' query (dbOk: the query succeeds),
\* as they change the tracker.
BeginPass ==
    /\ pc = "top"
    /\ IF ~active
       THEN /\ pc' = "stopped"
            /\ UNCHANGED <<idx, checked>>
       ELSE \E dbOk \in BOOLEAN :
                /\ pc' = IF ~dbOk THEN "sleep5"
                         ELSE IF Len(ChainList) = 0 THEN "sleep12" ELSE "iter"
                /\ idx' = 1
                /\ checked' = {}
    /\ UNCHANGED <<last_blocks, tracked_wallets_cache, active, cyc>>

\* The top of the while loop of start().
LoopTop ==
    /\ UNCHANGED <<tokenVars, call, otherVars>>
    /\ BeginPass

\* One iteration of the for loop, as it changes the tracker.
CheckChainIteration ==
    /\ pc = "iter"
    /\ \E current_block \in 0..MaxHeight, exc \in {"none", "adapter", "wallets"} :
          check_chain(ChainList[idx], current_block, exc)
    /\ checked' = checked \cup {ChainList[idx]}
    /\ IF cyc'.raised
       THEN pc' = "sleep5" /\ idx' = idx
       ELSE IF idx = Len(ChainList)
            THEN pc' = "sleep12" /\ idx' = idx
            ELSE pc' = "iter" /\ idx' = idx + 1
    /\ UNCHANGED active

\* One iteration of the for loop: self._check_chain(chain['name']).
LoopCheckChain ==
    /\ UNCHANGED <<tokenVars, call, otherVars>>
    /\ CheckChainIteration

\* The heights the first poll of each chain saw, before anything was polled.
NoPolls == [op |-> "polls", first |-> EmptyDict]

\* One iteration of the for loop, with the height that the first
\* _check_chain call of each chain saw kept as history in call.
LoopCheckChainObserved ==
    /\ UNCHANGED <<tokenVars, otherVars>>
    /\ CheckChainIteration
    /\ call' = IF cyc'.raised \/ cyc'.chain \in DOMAIN call.first
               THEN call
               ELSE [call EXCEPT !.first = DictSet(call.first, cyc'.chain, cyc'.height)]

\* time.sleep(12) at the end of a pass, time.sleep(5) in the except branch.
LoopSleep ==
    /\ UNCHANGED <<tokenVars, call, otherVars>>
    /\ pc \in {"sleep12", "sleep5"}
    /\ pc' = "top"
    /\ UNCHANGED <<last_blocks, tracked_wallets_cache, active, idx, checked, cyc>>

\* BotApplication.stop(): self.blockchain_tracker.active = False.
Stop ==
    /\ UNCHANGED <<tokenVars, call, otherVars>>
    /\ active
    /\ active' = FALSE
    /\ UNCHANGED <<last_blocks, tracked_wallets_cache, pc, idx, checked, cyc>>

\* The process is started again: BotApplication.start() constructs a new
\* BlockchainTracker and starts its thread.
Restart ==
    /\ UNCHANGED <<tokenVars, call, otherVars>>
    /\ last_blocks' = EmptyDict
    /\ tracked_wallets_cache' = EmptyDict
    /\ active' = TRUE
    /\ pc' = "top"
    /\ idx' = 1
    /\ checked' = {}
    /\ cyc' = NoCycle

\* _check_chain(chain) cut short: the tracker thread is a daemon thread that
\* nothing joins, so it is stopped where it is when the interpreter exits.
\* It has fetched the range and processed done of the tracked transactions;
\* last_blocks, assigned last, is not assigned.
check_chain_killed(chain, current_block) ==
    LET had        == chain \in DOMAIN last_blocks
        last_block == DictGet(last_blocks, chain, current_block)
        kind       == AdapterKind(chain)
        wallets    == DictGet(tracked_wallets_cache, chain, DbWallets(chain))
        base       == [NoCycle EXCEPT !.chain = chain, !.had = had,
                                      !.before = last_block, !.height = current_block]
    IN /\ ShouldScan(last_block, current_block)
       /\ \E failAt \in FetchFailures(kind, last_block + 1, current_block) :
          LET txs     == get_transactions(kind, last_block + 1, current_block, failAt)
              tracked == SelectTracked(txs, wallets)
          IN \E done \in 0..Len(tracked) :
                cyc' = [base EXCEPT !.fetched = TRUE, !.lo = last_block + 1,
                                    !.hi = current_block, !.failAt = failAt,
                                    !.scanned = ScannedBlocks(kind, last_block + 1,
                                                              current_block, failAt),
                                    !.txs = txs,
                                    !.attempted = Hashes(SubSeq(tracked, 1, done)),
                                    !.sent = Hashes(SubSeq(tracked, 1, done))]
       /\ UNCHANGED <<last_blocks, tracked_wallets_cache>>

\* main() returns after BotApplication.stop() and the interpreter exits: the
\* daemon thread of the tracker ends at once, between two steps or inside
\* the _check_chain call it is executing.
ProcessExit ==
    /\ UNCHANGED <<tokenVars, call, otherVars>>
    /\ ~active
    /\ pc \notin {"stopped", "killed"}
    /\ pc' = "killed"
    /\ \/ UNCHANGED <<last_blocks, tracked_wallets_cache, cyc>>
       \/ /\ pc = "iter"
          /\ \E current_block \in 0..MaxHeight :
                check_chain_killed(ChainList[idx], current_block)
    /\ UNCHANGED <<active, idx, checked>>

(***************************************************************************)
(* TokenMethodsMixin: the token's Transfer events and their classification *)
(***************************************************************************)
\* to_block = min(from_block + 1000, latest_block)
TokenScanWindow == 1000

\* TrackingConfig.min_amount / max_amount = None
NoAmount == -1

\* dex_addresses of _is_dex_address, as written in the source.
dex_addresses ==
    {"0x7a250d5630B4cF539739dF2C5dAcb4c659F2488D",
     "0xE592427A0AEce92De3Edee1F18E0157C05861564",
     "0xd9e1cE17f2641f24aE83637ab66a2cca9C378B9F",
     "0x10ED43C718714eb63d5aA57B78B54704E256024E"}

\* str.lower() on the addresses of the model.
Lower(addr) ==
    CASE addr = "0x7a250d5630B4cF539739dF2C5dAcb4c659F2488D"
              -> "0x7a250d5630b4cf539739df2c5dacb4c659f2488d"
      [] addr = "0xE592427A0AEce92De3Edee1F18E0157C05861564"
              -> "0xe592427a0aece92de3edee1f18e0157c05861564"
      [] addr = "0xd9e1cE17f2641f24aE83637ab66a2cca9C378B9F"
              -> "0xd9e1ce17f2641f24ae83637ab66a2cca9c378b9f"
      [] addr = "0x10ED43C718714eb63d5aA57B78B54704E256024E"
              -> "0x10ed43c718714eb63d5aa57b78b54704e256024e"
      [] addr = "0xToken" -> "0xtoken"
      [] addr = "0xOther" -> "0xother"
      [] addr = "0xUserA" -> "0xusera"
      [] addr = "0xUserB" -> "0xuserb"
      [] OTHER -> addr

\* _is_dex_address comparing the addresses as written.
is_dex_address_exact(address) == address \in dex_addresses

\* _is_dex_address: address.lower() in [addr.lower() for addr in dex_addresses]
is_dex_address(address) == Lower(address) \in {Lower(a) : a \in dex_addresses}

\* The transaction type _get_erc20_transactions gives a Transfer event.
TransactionTypeOf(from_addr, to_addr) ==
    IF is_dex_address(to_addr) THEN "sell"
    ELSE IF is_dex_address(from_addr) THEN "buy"
    ELSE "transfer"

\* The Transfer events of the tracked token in block b: a buy from a router;
\* one transaction that emits two Transfer events (a sell through a router
\* and a transfer between users); a plain transfer; a block without events.
Event(h, b, f, t, a) == [hash |-> h, block |-> b, from |-> f, to |-> t, amount |-> a]

TokenEvents(b) ==
    CASE b % 4 = 1 -> << Event(b * 10, b, "0x7a250d5630B4cF539739dF2C5dAcb4c659F2488D",
                               "0xUserA", 5) >>
      [] b % 4 = 2 -> << Event(b * 10, b, "0xUserA",
                               "0x7a250d5630b4cf539739df2c5dacb4c659f2488d", 2),
                         Event(b * 10, b, "0xUserA", "0xUserB", 2) >>
      [] b % 4 = 3 -> << Event(b * 10, b, "0xUserB", "0xUserA", 1) >>
      [] OTHER     -> << >>

RECURSIVE EventsIn(_, _)
EventsIn(from, to) ==
    IF from > to THEN << >> ELSE TokenEvents(from) \o EventsIn(from + 1, to)

\* The Transaction built from a Transfer event.
ToTransaction(ev) ==
    [hash |-> ev.hash, block_number |-> ev.block, amount |-> ev.amount,
     from_address |-> ev.from, to_address |-> ev.to,
     transaction_type |-> TransactionTypeOf(ev.from, ev.to)]

\* A sequence without its element at position k (k = 0: the sequence itself).
DropAt(seq, k) ==
    [i \in 1..(IF k \in 1..Len(seq) THEN Len(seq) - 1 ELSE Len(seq)) |->
        IF k \in 1..Len(seq) /\ i >= k THEN seq[i + 1] ELSE seq[i]]

\* _get_erc20_transactions(token_address, from_block): the events of
\* from_block..min(from_block + 1000, latest_block), one Transaction per event;
\* an event whose processing raises (position drop) is logged and left out.
get_erc20_transactions(from_block, latest_block, drop) ==
    LET to_block == Min(from_block + TokenScanWindow, latest_block)
        events   == EventsIn(from_block, to_block)
        kept     == DropAt(events, drop)
    IN [i \in 1..Len(kept) |-> ToTransaction(kept[i])]

(***************************************************************************)
(* TokenTracker                                                            *)
(***************************************************************************)
TrackingIds == {"Ethereum:0xtoken"}

Users == {"u1", "u2"}

TrackingModes == {"buy_only", "sell_only", "both"}

\* Python truth value of an Optional[float] amount bound.
Truthy(amount) == amount # NoAmount /\ amount # 0

\* _should_notify_transaction without its two mode tests.
should_notify_amount_only(transaction, config) ==
    IF Truthy(config.min_amount) /\ transaction.amount < config.min_amount THEN FALSE
    ELSE IF Truthy(config.max_amount) /\ transaction.amount > config.max_amount THEN FALSE
    ELSE TRUE

\* _should_notify_transaction(transaction, config)
should_notify_transaction(transaction, config) ==
    IF config.mode = "buy_only" /\ transaction.transaction_type # "buy" THEN FALSE
    ELSE IF config.mode = "sell_only" /\ transaction.transaction_type # "sell" THEN FALSE
    ELSE IF Truthy(config.min_amount) /\ transaction.amount < config.min_amount THEN FALSE
    ELSE IF Truthy(config.max_amount) /\ transaction.amount > config.max_amount THEN FALSE
    ELSE TRUE

\* The users _notify_subscribers sends to: those subscribed to the tracking id.
SubscribersOf(tracking_id) ==
    {u \in DOMAIN subscribers : tracking_id \in subscribers[u]}

\* A set of strings as a sequence, in one fixed order.
RECURSIVE SetToSeq(_)
SetToSeq(S) ==
    IF S = {} THEN << >>
    ELSE LET x == CHOOSE y \in S : TRUE IN << x >> \o SetToSeq(S \ {x})

\* The notifications of one pass over transactions: for each transaction the
\* filter accepts, one _send_notification per subscriber.
RECURSIVE Notifications(_, _, _)
Notifications(transactions, config, users) ==
    IF transactions = << >> THEN << >>
    ELSE LET tx == Head(transactions)
             here == IF should_notify_transaction(tx, config)
                     THEN [i \in 1..Len(users) |-> [user |-> users[i], hash |-> tx.hash]]
                     ELSE << >>
         IN here \o Notifications(Tail(transactions), config, users)

\* max(tx.block_number for tx in transactions)
RECURSIVE MaxBlock(_)
MaxBlock(transactions) ==
    IF Len(transactions) = 1 THEN transactions[1].block_number
    ELSE LET m == MaxBlock(Tail(transactions))
         IN IF transactions[1].block_number >= m THEN transactions[1].block_number ELSE m

\* _get_last_processed_block: int(block_data) if block_data else 0
get_last_processed_block(tracking_id) == DictGet(cache_last_block, tracking_id, 0)

\* The from_block of the next iteration's fetch: the loop never assigns
\* last_block, so it stays what was read before the loop.
NextFromBlock(last_block, transactions) == last_block

NoIteration ==
    [id |-> "none", from_block |-> 0, latest |-> 0, failed |-> FALSE,
     transactions |-> << >>, notified |-> << >>, saved |-> FALSE]

\* No tracking id is ever taken to hold a task.
AlreadyTrackedNever(tracking_id) == FALSE

\* 'tracking_id in self.active_trackers', the test of _start_tracking,
\* add_tracking and start_all_tracking before a task is created.
AlreadyTracked(tracking_id) == tracking_id \in active_trackers

\* The running task of the tracking id, as a task that active_trackers does
\* not hold: after self.active_trackers[tracking_id] = task it runs on
\* (cancelled false), after task.cancel() it ends at its next await, where
\* CancelledError is raised (cancelled true).
Released(tracking_id, cancelled) ==
    IF tracking_id \in DOMAIN tasks /\ tasks[tracking_id].pc \in {"begin", "loop"}
    THEN {[tracking_id |-> tracking_id, cancelled |-> cancelled]}
    ELSE {}

\* asyncio.create_task(self._track_token(tracking_id)): the task has not run
\* yet; config is the configuration _track_token will read.
NewTask(config) ==
    [pc |-> "begin", last_block |-> 0, stored |-> FALSE, config |-> config]

\* _start_tracking(tracking_id), with an event loop running; configs is
\* self.tracking_configs at the call.
start_tracking(tracking_id, configs) ==
    IF \/ AlreadyTracked(tracking_id)
       \/ tracking_id \notin DOMAIN configs
       \/ ~configs[tracking_id].enabled
    THEN UNCHANGED <<active_trackers, tasks, orphans>>
    ELSE /\ active_trackers' = active_trackers \cup {tracking_id}
         /\ orphans' = orphans \cup Released(tracking_id, FALSE)
         /\ tasks' = DictSet(tasks, tracking_id, NewTask(configs[tracking_id]))

\* The tracking ids for which the loop of start_all_tracking calls
\* _start_tracking.
Starting ==
    {tracking_id \in DOMAIN tracking_configs :
        tracking_configs[tracking_id].enabled /\ ~AlreadyTracked(tracking_id)}

\* start_all_tracking(): _start_tracking for every enabled configuration
\* whose id holds no task.
StartAllTracking ==
    /\ Starting # {}
    /\ active_trackers' = active_trackers \cup Starting
    /\ orphans' = orphans \cup UNION {Released(tracking_id, FALSE) : tracking_id \in Starting}
    /\ tasks' = [tracking_id \in DOMAIN tasks \cup Starting |->
                    IF tracking_id \in Starting
                    THEN NewTask(tracking_configs[tracking_id])
                    ELSE tasks[tracking_id]]
    /\ UNCHANGED <<tracking_configs, subscribers, cache_last_block, tok, notified_before>>
    /\ UNCHANGED <<trackerVars, call, otherVars>>

\* stop_all_tracking(): every held task is cancelled and active_trackers is
\* cleared.
StopAllTracking ==
    /\ active_trackers # {}
    /\ orphans' = orphans \cup UNION {Released(tracking_id, TRUE) :
                                        tracking_id \in active_trackers}
    /\ active_trackers' = {}
    /\ tasks' = EmptyDict
    /\ UNCHANGED <<tracking_configs, subscribers, cache_last_block, tok, notified_before>>
    /\ UNCHANGED <<trackerVars, call, otherVars>>

\* A cancelled task is resumed with CancelledError at the await where it is
\* suspended (before its first step, or in asyncio.sleep): 'except Exception'
\* does not catch it, and the task ends.
TaskCancelled(task) ==
    /\ task \in orphans
    /\ task.cancelled
    /\ orphans' = orphans \ {task}
    /\ UNCHANGED <<tracking_configs, subscribers, active_trackers, tasks,
                   cache_last_block, tok, notified_before>>
    /\ UNCHANGED <<trackerVars, call, otherVars>>

\* Keys of BlockchainAdapters._adapters (two of the nineteen).
BuiltinChains == {"Ethereum", "Fantom"}

\* get_adapter(chain_name) on the BlockchainAdapters instance whose
\* custom_adapters is given: the outcomes a call can have.  A custom chain's
\* adapter is returned as stored; an unknown name raises ValueError; a
\* built-in adapter is constructed, and None is returned when its
\* constructor raises (FantomAdapter does when it cannot connect).
get_adapter(custom, chain_name) ==
    IF chain_name \in DOMAIN custom
    THEN {[outcome |-> "adapter", adapter |-> custom[chain_name]]}
    ELSE IF chain_name \notin BuiltinChains
         THEN {[outcome |-> "ValueError"]}
         ELSE {[outcome |-> "adapter", adapter |-> [builtin |-> chain_name]],
               [outcome |-> "None"]}

\* _track_token up to its loop: the config, the adapter (got: the outcome of
\* get_adapter; without an adapter the coroutine returns or raises) and the
\* last processed block (stored: the cache held one).
TaskBegin(tracking_id) ==
    /\ tracking_id \in DOMAIN tasks
    /\ tasks[tracking_id].pc = "begin"
    /\ \E got \in (IF tracking_id \in DOMAIN tracking_configs
                    THEN get_adapter(custom_adapters,
                                     tracking_configs[tracking_id].blockchain)
                    ELSE {[outcome |-> "None"]}) :
          tasks' = [tasks EXCEPT ![tracking_id] =
                      IF tracking_id \notin DOMAIN tracking_configs
                         \/ got.outcome # "adapter"
                      THEN [@ EXCEPT !.pc = "ended"]
                      ELSE [@ EXCEPT !.pc = "loop",
                                     !.config = tracking_configs[tracking_id],
                                     !.stored = tracking_id \in DOMAIN cache_last_block,
                                     !.last_block = get_last_processed_block(tracking_id)]]
    /\ UNCHANGED <<tracking_configs, subscribers, active_trackers, cache_last_block, orphans,
                   tok, notified_before>>
    /\ UNCHANGED <<trackerVars, call, otherVars>>

\* One iteration of the while loop of _track_token.  Inputs: latest, the
\* chain's height; fetchOk, whether the fetch succeeds (a failed fetch returns
\* no transactions); drop, the position of an event whose processing raises.
TaskIterate(tracking_id) ==
    /\ tracking_id \in DOMAIN tasks
    /\ tasks[tracking_id].pc = "loop"
    /\ LET task == tasks[tracking_id] IN
       IF ~task.config.enabled
       THEN /\ tasks' = [tasks EXCEPT ![tracking_id].pc = "exited"]
            /\ UNCHANGED <<cache_last_block, tok, notified_before>>
       ELSE \E latest \in 0..MaxTokenHeight, fetchOk \in BOOLEAN :
            \E drop \in 0..(IF fetchOk
                            THEN Len(EventsIn(task.last_block,
                                              Min(task.last_block + TokenScanWindow, latest)))
                            ELSE 0) :
            LET transactions == IF fetchOk
                                THEN get_erc20_transactions(task.last_block, latest, drop)
                                ELSE << >>
                notified == Notifications(transactions, task.config,
                                          SetToSeq(SubscribersOf(tracking_id)))
            IN /\ cache_last_block' =
                      IF transactions # << >>
                      THEN DictSet(cache_last_block, tracking_id, MaxBlock(transactions))
                      ELSE cache_last_block
               /\ tasks' = [tasks EXCEPT ![tracking_id].last_block =
                                              NextFromBlock(task.last_block, transactions)]
               /\ tok' = [id |-> tracking_id, from_block |-> task.last_block,
                          latest |-> latest, failed |-> (~fetchOk \/ drop # 0),
                          transactions |-> transactions, notified |-> notified,
                          saved |-> (transactions # << >>)]
               /\ notified_before' =
                      IF tok.failed THEN {}
                      ELSE notified_before \cup {tok.notified[i] : i \in 1..Len(tok.notified)}
    /\ UNCHANGED <<tracking_configs, subscribers, active_trackers, orphans>>
    /\ UNCHANGED <<trackerVars, call, otherVars>>

(***************************************************************************)
(* Initial states and specifications                                       *)
(***************************************************************************)
\* BlockchainTracker.__init__ leaves last_blocks empty.  _check_chain is
\* specified for a tracker that holds a checkpoint, so the initial states
\* also include every tracker with one chain's checkpoint set.
InitTracker ==
    /\ \/ last_blocks = EmptyDict
       \/ \E chain \in Chains, h \in 0..MaxHeight : last_blocks = (chain :> h)
    /\ tracked_wallets_cache = EmptyDict
    /\ active = TRUE
    /\ pc = "top"
    /\ idx = 1
    /\ checked = {}
    /\ cyc = NoCycle

\* BlockchainTracker as __init__ leaves it.
InitTrackerConstructed ==
    /\ last_blocks = EmptyDict
    /\ tracked_wallets_cache = EmptyDict
    /\ active = TRUE
    /\ pc = "top"
    /\ idx = 1
    /\ checked = {}
    /\ cyc = NoCycle

\* The configurations TokenTracker.__init__ can load from the cache.
Configs ==
    [token_address : {"0xtoken"}, blockchain : {"Ethereum"}, mode : TrackingModes,
     min_amount : {NoAmount, 2}, max_amount : {NoAmount, 3}, enabled : BOOLEAN]

\* TokenTracker.__init__: configurations, subscribers and the last processed
\* block are what the cache holds; no task runs.
InitToken ==
    /\ \/ tracking_configs = EmptyDict
       \/ \E tracking_id \in TrackingIds, config \in Configs :
             tracking_configs = (tracking_id :> config)
    /\ \/ subscribers = EmptyDict
       \/ /\ tracking_configs # EmptyDict
          /\ \E S \in (SUBSET Users) \ {{}} :
                subscribers = [u \in S |-> DOMAIN tracking_configs]
    /\ \/ cache_last_block = EmptyDict
       \/ \E tracking_id \in TrackingIds, b \in 0..MaxTokenHeight :
             cache_last_block = (tracking_id :> b)
    /\ active_trackers = {}
    /\ tasks = EmptyDict
    /\ tok = NoIteration
    /\ notified_before = {}
    /\ orphans = {}

\* A TokenTracker that tracks nothing.
InitTokenEmpty ==
    /\ tracking_configs = EmptyDict
    /\ subscribers = EmptyDict
    /\ cache_last_block = EmptyDict
    /\ active_trackers = {}
    /\ tasks = EmptyDict
    /\ tok = NoIteration
    /\ notified_before = {}
    /\ orphans = {}

\* No operation has been called directly.
NoCall == [op |-> "none"]

\* CustomBlockchainManager() at import, when the configuration file does not
\* exist: create_default_config writes the disabled example chains and the
\* manager holds no chain.
DefaultConfigFile ==
    "example_evm_chain" :> [type |-> "evm", rpc_url |-> "https://rpc.example-evm-chain.com",
                            enabled |-> FALSE]

InitRegistry ==
    /\ custom_chains = EmptyDict
    /\ chain_configs = EmptyDict
    /\ config_file = DefaultConfigFile
    /\ custom_adapters = EmptyDict
    /\ removed = {}

\* RedisCache(): an empty fallback cache; redis_available is set after ping().
InitRedisDown ==
    /\ redis_available = FALSE
    /\ redis_store = EmptyDict
    /\ fallback_cache = EmptyDict
    /\ now = 0
    /\ expected = EmptyDict

\* The registry, the cache and the settings in the specifications that do
\* not use them.
InitOther == InitRegistry /\ InitRedisDown /\ tracking_paused = "false" /\ InitWallets /\ InitSettings

Init == InitTracker /\ InitTokenEmpty /\ call = NoCall /\ InitOther

Next ==
    \/ LoopTop
    \/ LoopCheckChain
    \/ LoopSleep
    \/ Stop
    \/ Restart

\* The BlockchainTracker thread and the application's stop and restart.
Spec == Init /\ [][Next]_vars

\* handle_pause_tracking: the settings row tracking_paused is set to 'true'
\* and the admin is told that transaction tracking is paused.
HandlePauseTracking ==
    /\ tracking_paused # "true"
    /\ tracking_paused' = "true"
    /\ UNCHANGED <<trackerVars, tokenVars, call, registryVars, redisVars, wallets_table, adminVars>>

\* handle_resume_tracking: the row is set to 'false'.
HandleResumeTracking ==
    /\ tracking_paused # "false"
    /\ tracking_paused' = "false"
    /\ UNCHANGED <<trackerVars, tokenVars, call, registryVars, redisVars, wallets_table, adminVars>>

NextPause == Next \/ HandlePauseTracking \/ HandleResumeTracking

\* The tracker and the admin's /pause_tracking and /resume_tracking commands.
SpecPause == Init /\ [][NextPause]_vars

(***************************************************************************)
(* The admin's wallet commands next to the tracker thread.  call keeps as  *)
(* history whether the wallets table is as it was when the tracker's       *)
(* current pass began.                                                     *)
(***************************************************************************)
\* The address and the chain the admin passes to /add_wallet and /remove_wallet.
WalletAddresses == {"0xAAA"}

WalletChains == {"Ethereum"}

TableAsAtPassStart == [op |-> "wallets", unchanged |-> TRUE]

\* handle_add_wallet with a valid address: the row is inserted.
HandleAddWallet(address, blockchain) ==
    /\ wallets_table' = wallets_table \cup {[address |-> address, blockchain |-> blockchain]}
    /\ call' = [call EXCEPT !.unchanged = (wallets_table' = wallets_table) /\ @]
    /\ UNCHANGED <<trackerVars, tokenVars, registryVars, redisVars, tracking_paused, adminVars>>

\* handle_remove_wallet: every row with the address is deleted.
HandleRemoveWallet(address) ==
    /\ wallets_table' = {r \in wallets_table : r.address # address}
    /\ call' = [call EXCEPT !.unchanged = (wallets_table' = wallets_table) /\ @]
    /\ UNCHANGED <<trackerVars, tokenVars, registryVars, redisVars, tracking_paused, adminVars>>

\* handle_clear_cache: cache.clear_all() flushes Redis or, when Redis is not
\* available or the flush fails, empties the in-memory fallback cache.
HandleClearCache(redisOk) ==
    /\ IF redis_available /\ redisOk
       THEN /\ redis_store' = EmptyDict
            /\ UNCHANGED <<redis_available, fallback_cache>>
       ELSE /\ redis_available' = FALSE
            /\ fallback_cache' = EmptyDict
            /\ UNCHANGED redis_store
    /\ expected' = [key \in DOMAIN expected |-> [state |-> "deleted"]]
    /\ UNCHANGED <<now, call>>
    /\ UNCHANGED <<trackerVars, tokenVars, registryVars, tracking_paused, wallets_table, adminVars>>

\* The top of the while loop; a pass that begins sees the table as it is.
LoopTopObserved ==
    /\ UNCHANGED <<tokenVars, otherVars>>
    /\ BeginPass
    /\ call' = IF active THEN [call EXCEPT !.unchanged = TRUE] ELSE call

\* The tracker holds no checkpoint, or block 0 as the checkpoint of a chain
\* the commands name.
InitWalletCommands ==
    /\ InitTracker
    /\ \A chain \in DOMAIN last_blocks : chain \in WalletChains /\ last_blocks[chain] = 0
    /\ InitTokenEmpty /\ call = TableAsAtPassStart
    /\ InitRegistry /\ tracking_paused = "false" /\ InitWallets /\ InitSettings
    /\ redis_available \in BOOLEAN
    /\ redis_store = EmptyDict
    /\ fallback_cache = EmptyDict
    /\ now = 0
    /\ expected = EmptyDict

NextWalletCommands ==
    \/ LoopTopObserved
    \/ LoopCheckChain
    \/ LoopSleep
    \/ \E address \in WalletAddresses, blockchain \in WalletChains :
            HandleAddWallet(address, blockchain)
    \/ \E address \in WalletAddresses : HandleRemoveWallet(address)
    \/ \E redisOk \in BOOLEAN : HandleClearCache(redisOk)

\* The tracker thread and /add_wallet, /remove_wallet and /clear_cache.
SpecWalletCommands == InitWalletCommands /\ [][NextWalletCommands]_vars

(***************************************************************************)
(* Admin authorization: the admin_required wrapper of the command          *)
(* handlers, /set_admin_id, and the bot being added to a group.  Logging   *)
(* calls and reply_text are taken to return normally.                      *)
(***************************************************************************)
\* str(update.effective_user.id) of the Telegram users.
TelegramUsers == {"100", "200", "300"}

\* update.effective_chat.id of the groups the bot is added to.
GroupIds == {"-1001"}

\* context.args of /set_admin_id: a user id, or no argument.
NoArg == "NoArg"

AdminIdArgs == TelegramUsers \cup {NoArg}

\* get_db(): the cached SupabaseDB, or a new one when none is cached yet
\* (dbUp: its construction succeeds); None otherwise.
get_db(dbUp) == db_initialized \/ dbUp

\* admin_required: what the wrapper does before the handler's body.  db:
\* get_db() returned a database; queryOk: the settings query succeeds.
admin_required(caller, db, queryOk) ==
    IF ~db THEN "SYSTEM_ERROR"
    ELSE IF ~queryOk \/ "admin_id" \notin DOMAIN settings THEN "SYSTEM_ERROR"
    ELSE IF caller # settings["admin_id"] THEN "AUTH_ERROR"
    ELSE "run"

\* handle_start behind admin_required.
HandleStart(caller, dbUp, queryOk) ==
    LET outcome == admin_required(caller, get_db(dbUp), queryOk)
    IN /\ db_initialized' = get_db(dbUp)
       /\ call' = [op |-> "start", caller |-> caller, ran |-> (outcome = "run"),
                   reply |-> IF outcome = "run" THEN "online" ELSE outcome]
       /\ UNCHANGED settings
       /\ UNCHANGED <<trackerVars, tokenVars, registryVars, redisVars, tracking_paused,
                      wallets_table>>

\* handle_set_admin_id behind admin_required: the body upserts the row
\* admin_id with its argument (writeOk: the upsert succeeds; without an
\* argument it replies with the usage).
HandleSetAdminId(caller, arg, dbUp, queryOk, writeOk) ==
    LET outcome == admin_required(caller, get_db(dbUp), queryOk)
        written == outcome = "run" /\ arg # NoArg /\ writeOk
    IN /\ db_initialized' = get_db(dbUp)
       /\ settings' = IF written THEN DictSet(settings, "admin_id", arg) ELSE settings
       /\ call' = [op |-> "set_admin_id", caller |-> caller, ran |-> (outcome = "run"),
                   reply |-> IF outcome # "run" THEN outcome
                             ELSE IF arg = NoArg THEN "usage"
                             ELSE IF writeOk THEN "set" ELSE "SYSTEM_ERROR"]
       /\ UNCHANGED <<trackerVars, tokenVars, registryVars, redisVars, tracking_paused,
                      wallets_table>>

\* _on_bot_added_to_group: the user who added the bot is stored as admin_id
\* and the chat as group_id.  writes: how many of the two upserts succeed
\* before one raises.
OnBotAddedToGroup(user, chat, writes) ==
    /\ settings' = IF writes = 0 THEN settings
                   ELSE IF writes = 1 THEN DictSet(settings, "admin_id", user)
                   ELSE DictSet(DictSet(settings, "admin_id", user), "group_id", chat)
    /\ call' = [op |-> "added_to_group", caller |-> user, ran |-> TRUE,
                reply |-> IF writes = 2 THEN "activated" ELSE "none"]
    /\ UNCHANGED db_initialized
    /\ UNCHANGED <<trackerVars, tokenVars, registryVars, redisVars, tracking_paused,
                   wallets_table>>

InitAdmin == InitTrackerConstructed /\ InitTokenEmpty /\ call = NoCall /\ InitOther

NextAdmin ==
    \/ \E caller \in TelegramUsers, dbUp \in BOOLEAN, queryOk \in BOOLEAN :
            HandleStart(caller, dbUp, queryOk)
    \/ \E caller \in TelegramUsers, arg \in AdminIdArgs,
          dbUp \in BOOLEAN, queryOk \in BOOLEAN, writeOk \in BOOLEAN :
            HandleSetAdminId(caller, arg, dbUp, queryOk, writeOk)
    \/ \E user \in TelegramUsers, chat \in GroupIds, writes \in 0..2 :
            OnBotAddedToGroup(user, chat, writes)

\* The commands of Telegram users and the bot's additions to groups, from a
\* settings table without an admin.
SpecAdmin == InitAdmin /\ [][NextAdmin]_vars

(***************************************************************************)
(* RedisCache and its in-memory fallback SimpleCache                       *)
(***************************************************************************)
\* time.time() runs from 0 to MaxTime.
MaxTime == 3

CacheKeys == {"test_key"}

\* The strings stored; the empty string is a value like any other.
CacheValues == {"test_value", ""}

CacheTtls == {1, 2}

\* None, as the result of a get.
CacheNone == "None"

\* SimpleCache.get(key) on the dict cache at time t: the value returned and
\* the dict afterwards (an expired entry is deleted).
SimpleCacheGet(cache, key, t) ==
    IF key \notin DOMAIN cache
    THEN [value |-> CacheNone, cache |-> cache]
    ELSE IF t > cache[key].expires
         THEN [value |-> CacheNone, cache |-> DictDel(cache, key)]
         ELSE [value |-> cache[key].value, cache |-> cache]

\* SimpleCache.set(key, value, ttl) at time t.
SimpleCacheSet(cache, key, value, ttl, t) ==
    DictSet(cache, key, [value |-> value, expires |-> t + ttl])

\* conn.get(key): what the Redis server holds for the key at time t; a key
\* set with SETEX is gone once its ttl has passed.
RedisGet(store, key, t) ==
    IF key \in DOMAIN store /\ t < store[key].expires
    THEN store[key].value
    ELSE CacheNone

\* RedisCache.get(key).  redisOk: the Redis call succeeds.  'if value:' takes
\* an empty value for a miss; a Redis error clears redis_available and the
\* call is answered by the fallback cache.
cache_get(key, redisOk) ==
    IF redis_available /\ redisOk
    THEN LET value == RedisGet(redis_store, key, now)
         IN [value |-> IF value # CacheNone /\ value # "" THEN value ELSE CacheNone,
             available |-> TRUE, fallback |-> fallback_cache]
    ELSE LET got == SimpleCacheGet(fallback_cache, key, now)
         IN [value |-> got.value, available |-> FALSE, fallback |-> got.cache]

\* What a get of the key has to return according to the calls made so far:
\* the value last set while it has not expired, None after a delete.
Expectation(key) ==
    IF key \notin DOMAIN expected THEN [state |-> "unset"]
    ELSE IF expected[key].state = "set" /\ now >= expected[key].expires
         THEN [state |-> "expired"]
         ELSE expected[key]

CacheGet(key, redisOk) ==
    LET got == cache_get(key, redisOk)
    IN /\ redis_available' = got.available
       /\ fallback_cache' = got.fallback
       /\ call' = [op |-> "cache_get", key |-> key, expect |-> Expectation(key),
                   failed |-> (redis_available /\ ~redisOk), result |-> got.value]
       /\ UNCHANGED <<redis_store, now, expected>>
       /\ UNCHANGED <<trackerVars, tokenVars, registryVars, tracking_paused, wallets_table, adminVars>>

\* RedisCache.set(key, value, ttl): conn.setex, or the fallback cache when
\* Redis is not available or the call raises.
CacheSet(key, value, ttl, redisOk) ==
    /\ IF redis_available /\ redisOk
       THEN /\ redis_store' = DictSet(redis_store, key,
                                      [value |-> value, expires |-> now + ttl])
            /\ UNCHANGED <<redis_available, fallback_cache>>
       ELSE /\ redis_available' = FALSE
            /\ fallback_cache' = SimpleCacheSet(fallback_cache, key, value, ttl, now)
            /\ UNCHANGED redis_store
    /\ expected' = DictSet(expected, key,
                           [state |-> "set", value |-> value, expires |-> now + ttl])
    /\ call' = [op |-> "cache_set", key |-> key, failed |-> (redis_available /\ ~redisOk)]
    /\ UNCHANGED now
    /\ UNCHANGED <<trackerVars, tokenVars, registryVars, tracking_paused, wallets_table, adminVars>>

\* RedisCache.delete(key): conn.delete, or the fallback cache's delete.
CacheDelete(key, redisOk) ==
    /\ IF redis_available /\ redisOk
       THEN /\ redis_store' = DictDel(redis_store, key)
            /\ UNCHANGED <<redis_available, fallback_cache>>
       ELSE /\ redis_available' = FALSE
            /\ fallback_cache' = DictDel(fallback_cache, key)
            /\ UNCHANGED redis_store
    /\ expected' = DictSet(expected, key, [state |-> "deleted"])
    /\ call' = [op |-> "cache_delete", key |-> key,
                failed |-> (redis_available /\ ~redisOk)]
    /\ UNCHANGED now
    /\ UNCHANGED <<trackerVars, tokenVars, registryVars, tracking_paused, wallets_table, adminVars>>

\* A second passes.
TimePasses ==
    /\ now < MaxTime
    /\ now' = now + 1
    /\ UNCHANGED <<redis_available, redis_store, fallback_cache, expected, call>>
    /\ UNCHANGED <<trackerVars, tokenVars, registryVars, tracking_paused, wallets_table, adminVars>>

\* RedisCache(): redis_available is True when redis imports and ping()
\* answers; both caches are empty.
InitCache ==
    /\ InitTrackerConstructed /\ InitTokenEmpty /\ call = NoCall
    /\ InitRegistry /\ tracking_paused = "false" /\ InitWallets /\ InitSettings
    /\ redis_available \in BOOLEAN
    /\ redis_store = EmptyDict
    /\ fallback_cache = EmptyDict
    /\ now = 0
    /\ expected = EmptyDict

NextCache ==
    \/ \E key \in CacheKeys, redisOk \in BOOLEAN : CacheGet(key, redisOk)
    \/ \E key \in CacheKeys, value \in CacheValues, ttl \in CacheTtls, redisOk \in BOOLEAN :
            CacheSet(key, value, ttl, redisOk)
    \/ \E key \in CacheKeys, redisOk \in BOOLEAN : CacheDelete(key, redisOk)
    \/ TimePasses

\* Calls of one RedisCache, Redis failing at any of them.
SpecCache == InitCache /\ [][NextCache]_vars

(***************************************************************************)
(* CustomBlockchainManager and the BlockchainAdapters instances            *)
(***************************************************************************)
ChainNames == {"test_evm", "test_web3"}

\* The configuration dicts passed to add_custom_chain: a key a dict does not
\* hold is a field the record does not have.
ChainConfigs ==
    {[type |-> "evm", rpc_url |-> "https://rpc.test-evm.com", enabled |-> TRUE],
     [type |-> "web3"],
     [type |-> "solana", rpc_url |-> "https://rpc.test-evm.com", enabled |-> TRUE],
     [type |-> "evm", rpc_url |-> "https://rpc.test-evm.com", enabled |-> FALSE]}

\* config.get('rpc_url') of a configuration without the key.
NoUrl == "None"

\* config.get('type', 'web3').lower()
chain_type(config) == Lower(DictGet(config, "type", "web3"))

\* add_custom_chain accepting every type.
accepts_any_type(config) == DictGet(config, "enabled", TRUE)

\* The tests of add_custom_chain before it stores anything: the
\* configuration is enabled (by default it is) and its type is evm or web3.
accepts(config) ==
    /\ DictGet(config, "enabled", TRUE)
    /\ chain_type(config) \in {"evm", "web3"}

\* CustomEVMAdapter(config) / CustomWeb3Adapter(config): the constructors
\* read the configuration with dict.get and raise on no missing key; without
\* rpc_url the adapter is built with no connection.
NewAdapter(config) ==
    [class |-> IF chain_type(config) = "evm" THEN "CustomEVMAdapter"
               ELSE "CustomWeb3Adapter",
     rpc_url |-> DictGet(config, "rpc_url", NoUrl)]

\* save_configuration(): json.dump(self.chain_configs).  The configurations
\* hold strings and booleans under string keys, which json.load gives back
\* unchanged.
save_configuration(configs) == configs

\* load_custom_chains() on the file: add_custom_chain(name, config,
\* save=False) for every entry; the chains and configurations of the new
\* manager.
load_custom_chains(file) ==
    LET loaded == {name \in DOMAIN file : accepts(file[name])}
    IN [custom_chains |-> [name \in loaded |-> NewAdapter(file[name])],
        chain_configs |-> [name \in loaded |-> file[name]]]

\* list_custom_chains() of a manager holding chains.
list_custom_chains(chains) == DOMAIN chains

\* get_custom_chain(name): self.custom_chains.get(chain_name)
get_custom_chain(chains, name) ==
    IF name \in DOMAIN chains THEN [found |-> TRUE, adapter |-> chains[name]]
    ELSE [found |-> FALSE]

\* add_custom_chain(chain_name, config, save)
AddCustomChain(name, config, save) ==
    /\ IF accepts(config)
       THEN LET configs == DictSet(chain_configs, name, config)
            IN /\ custom_chains' = DictSet(custom_chains, name, NewAdapter(config))
               /\ chain_configs' = configs
               /\ config_file' = IF save THEN save_configuration(configs) ELSE config_file
               /\ removed' = removed \ {name}
       ELSE UNCHANGED <<custom_chains, chain_configs, config_file, removed>>
    /\ call' = [op |-> "add_custom_chain", name |-> name, result |-> accepts(config)]
    /\ UNCHANGED custom_adapters
    /\ UNCHANGED <<trackerVars, tokenVars, redisVars, tracking_paused, wallets_table, adminVars>>

\* remove_custom_chain(chain_name, save)
RemoveCustomChain(name, save) ==
    LET configs == DictDel(chain_configs, name)
    IN /\ custom_chains' = DictDel(custom_chains, name)
       /\ chain_configs' = configs
       /\ config_file' = IF save THEN save_configuration(configs) ELSE config_file
       /\ removed' = removed \cup {name}
       /\ call' = [op |-> "remove_custom_chain", name |-> name, result |-> TRUE]
       /\ UNCHANGED custom_adapters
       /\ UNCHANGED <<trackerVars, tokenVars, redisVars, tracking_paused, wallets_table, adminVars>>

\* disable_chain keeping the adapter of the chain.
disabled_chains_kept(chains, name) == chains

\* disable_chain: 'del self.custom_chains[chain_name]' when it is there.
disabled_chains(chains, name) == DictDel(chains, name)

\* disable_chain(chain_name): the adapter is dropped, then
\* update_chain_config(chain_name, {'enabled': False}) updates the
\* configuration, if there is one, and saves.
DisableChain(name) ==
    /\ custom_chains' = disabled_chains(custom_chains, name)
    /\ IF name \in DOMAIN chain_configs
       THEN LET configs == DictSet(chain_configs, name,
                                   DictSet(chain_configs[name], "enabled", FALSE))
            IN /\ chain_configs' = configs
               /\ config_file' = save_configuration(configs)
       ELSE UNCHANGED <<chain_configs, config_file>>
    /\ call' = [op |-> "disable_chain", name |-> name,
                result |-> name \in DOMAIN chain_configs]
    /\ UNCHANGED <<custom_adapters, removed>>
    /\ UNCHANGED <<trackerVars, tokenVars, redisVars, tracking_paused, wallets_table, adminVars>>

\* enable_chain(chain_name): update_chain_config(chain_name, {'enabled':
\* True}) updates the configuration, adds the chain again with
\* add_custom_chain(save=False) and saves.
EnableChain(name) ==
    /\ IF name \in DOMAIN chain_configs
       THEN LET config  == DictSet(chain_configs[name], "enabled", TRUE)
                configs == DictSet(chain_configs, name, config)
            IN /\ chain_configs' = configs
               /\ custom_chains' = IF accepts(config)
                                   THEN DictSet(custom_chains, name, NewAdapter(config))
                                   ELSE custom_chains
               /\ config_file' = save_configuration(configs)
               /\ removed' = IF accepts(config) THEN removed \ {name} ELSE removed
       ELSE UNCHANGED <<custom_chains, chain_configs, config_file, removed>>
    /\ call' = [op |-> "enable_chain", name |-> name,
                result |-> name \in DOMAIN chain_configs]
    /\ UNCHANGED custom_adapters
    /\ UNCHANGED <<trackerVars, tokenVars, redisVars, tracking_paused, wallets_table, adminVars>>

\* dict.update(updates)
DictUpdate(d, updates) ==
    [k \in DOMAIN d \cup DOMAIN updates |-> IF k \in DOMAIN updates THEN updates[k] ELSE d[k]]

\* The updates passed to update_chain_config.
ChainUpdates ==
    {[enabled |-> FALSE], [enabled |-> TRUE], [type |-> "solana"],
     [rpc_url |-> "https://rpc2.test-evm.com"]}

\* update_chain_config(chain_name, updates): the stored configuration is
\* updated; when it is enabled the chain is added again with
\* add_custom_chain(save=False), which builds a new adapter if it accepts the
\* configuration; the file is saved.
UpdateChainConfig(name, updates) ==
    /\ IF name \in DOMAIN chain_configs
       THEN LET config  == DictUpdate(chain_configs[name], updates)
                configs == DictSet(chain_configs, name, config)
            IN /\ chain_configs' = configs
               /\ custom_chains' = IF accepts(config)
                                   THEN DictSet(custom_chains, name, NewAdapter(config))
                                   ELSE custom_chains
               /\ config_file' = save_configuration(configs)
               /\ removed' = IF accepts(config) THEN removed \ {name} ELSE removed
       ELSE UNCHANGED <<custom_chains, chain_configs, config_file, removed>>
    /\ call' = [op |-> "update_chain_config", name |-> name,
                result |-> name \in DOMAIN chain_configs]
    /\ UNCHANGED custom_adapters
    /\ UNCHANGED <<trackerVars, tokenVars, redisVars, tracking_paused, wallets_table, adminVars>>

\* The bot starts: the module-level CustomBlockchainManager() loads the
\* file, and TokenTracker.__init__ creates its BlockchainAdapters(), whose
\* custom_adapters is a copy of the manager's chains at that moment.
Startup ==
    LET loaded == load_custom_chains(config_file)
    IN /\ custom_chains' = loaded.custom_chains
       /\ chain_configs' = loaded.chain_configs
       /\ custom_adapters' = loaded.custom_chains
       /\ removed' = {}
       /\ call' = [op |-> "startup"]
       /\ UNCHANGED config_file
       /\ UNCHANGED <<trackerVars, tokenVars, redisVars, tracking_paused, wallets_table, adminVars>>

\* get_adapter(chain_name) on the BlockchainAdapters of the TokenTracker
\* (instance "token_tracker") or on one a command handler has just created
\* (instance "handler": its custom_adapters is the manager's chains now).
GetAdapter(instance, name) ==
    /\ \E got \in get_adapter(IF instance = "handler" THEN custom_chains
                               ELSE custom_adapters, name) :
          call' = [op |-> "get_adapter", instance |-> instance, name |-> name,
                   was_removed |-> (name \in removed), result |-> got]
    /\ UNCHANGED registryVars
    /\ UNCHANGED <<trackerVars, tokenVars, redisVars, tracking_paused, wallets_table, adminVars>>

InitRegistrySpec ==
    /\ InitTrackerConstructed /\ InitTokenEmpty /\ call = NoCall
    /\ InitRegistry /\ InitRedisDown /\ tracking_paused = "false" /\ InitWallets /\ InitSettings

NextRegistry ==
    \/ \E name \in ChainNames, config \in ChainConfigs, save \in BOOLEAN :
            AddCustomChain(name, config, save)
    \/ \E name \in ChainNames, save \in BOOLEAN : RemoveCustomChain(name, save)
    \/ \E name \in ChainNames : DisableChain(name)
    \/ \E name \in ChainNames : EnableChain(name)
    \/ Startup
    \/ \E instance \in {"token_tracker", "handler"}, name \in ChainNames :
            GetAdapter(instance, name)

\* The calls of the custom chain registry, bot starts included.
SpecRegistry == InitRegistrySpec /\ [][NextRegistry]_vars

NextReload ==
    \/ \E name \in ChainNames, config \in ChainConfigs, save \in BOOLEAN :
            AddCustomChain(name, config, save)
    \/ \E name \in ChainNames : DisableChain(name)
    \/ \E name \in ChainNames : EnableChain(name)
    \/ Startup

\* Chains are added, disabled and enabled, and the manager is constructed
\* again from its file; no chain is removed.
SpecReload == InitRegistrySpec /\ [][NextReload]_vars

NextManager ==
    \/ \E name \in ChainNames, config \in ChainConfigs, save \in BOOLEAN :
            AddCustomChain(name, config, save)
    \/ \E name \in ChainNames, save \in BOOLEAN : RemoveCustomChain(name, save)
    \/ \E name \in ChainNames, updates \in ChainUpdates : UpdateChainConfig(name, updates)
    \/ \E name \in ChainNames : DisableChain(name)
    \/ \E name \in ChainNames : EnableChain(name)

\* Any sequence of the five calls that change a CustomBlockchainManager.
SpecManager == InitRegistrySpec /\ [][NextManager]_vars

\* A tracker that has just been constructed: last_blocks is empty.
InitConstructed ==
    InitTrackerConstructed /\ InitTokenEmpty /\ call = NoPolls /\ InitOther

NextConstructed ==
    \/ LoopTop
    \/ LoopCheckChainObserved
    \/ LoopSleep

\* The polling loop of a newly constructed BlockchainTracker.
SpecConstructed == InitConstructed /\ [][NextConstructed]_vars

\* The tracker and the end of the process after BotApplication.stop().
NextShutdown == Next \/ ProcessExit

SpecShutdown == Init /\ [][NextShutdown]_vars

InitTokenTracker == InitTrackerConstructed /\ InitToken /\ call = NoCall /\ InitOther

NextToken ==
    \/ StartAllTracking
    \/ \E tracking_id \in TrackingIds : TaskBegin(tracking_id)
    \/ \E tracking_id \in TrackingIds : TaskIterate(tracking_id)

\* The TokenTracker and its tracking tasks.
SpecToken == InitTokenTracker /\ [][NextToken]_vars

\* A rule is disabled or enabled again: config.enabled = value on the
\* TrackingConfig object of tracking_configs, which is also the object the
\* rule's task holds in its local variable config.
SetEnabled(tracking_id, value) ==
    /\ tracking_id \in DOMAIN tracking_configs
    /\ tracking_configs[tracking_id].enabled # value
    /\ tracking_configs' = [tracking_configs EXCEPT ![tracking_id].enabled = value]
    /\ tasks' = IF tracking_id \in DOMAIN tasks
                 THEN [tasks EXCEPT ![tracking_id].config.enabled = value]
                 ELSE tasks
    /\ UNCHANGED <<subscribers, active_trackers, cache_last_block, tok, notified_before,
                   orphans>>
    /\ UNCHANGED <<trackerVars, call, otherVars>>

NextTokenEnable ==
    \/ NextToken
    \/ \E tracking_id \in TrackingIds, value \in BOOLEAN : SetEnabled(tracking_id, value)

\* The TokenTracker, its tracking tasks, and rules being disabled and enabled.
SpecTokenEnable == InitTokenTracker /\ [][NextTokenEnable]_vars

(***************************************************************************)
(* TokenTracker.add_tracking, remove_tracking, get_user_trackings and      *)
(* get_tracking_stats                                                      *)
(***************************************************************************)
\* The chains and token addresses users name: one token written in two
\* letter cases, and a second token.
ManageBlockchains == {"Ethereum"}

ManageAddresses == {"0xToken", "0xtoken", "0xOther"}

\* _get_tracking_id without the lower().
get_tracking_id_as_written(blockchain, token_address) ==
    blockchain \o ":" \o token_address

\* _get_tracking_id: f"{blockchain}:{token_address.lower()}"
get_tracking_id(blockchain, token_address) ==
    blockchain \o ":" \o Lower(token_address)

\* The TrackingConfig add_tracking builds; its callers pass no keyword
\* arguments, so the amount bounds are None.
NewConfig(blockchain, token_address, mode) ==
    [token_address |-> Lower(token_address), blockchain |-> blockchain, mode |-> mode,
     min_amount |-> NoAmount, max_amount |-> NoAmount, enabled |-> TRUE]

\* add_tracking: the user's entry of subscribers with the tracking id added.
Subscribe(subs, user_id, tracking_id) ==
    DictSet(subs, user_id, DictGet(subs, user_id, {}) \cup {tracking_id})

\* remove_tracking's removal of the subscription, keeping an emptied set.
UnsubscribeKeepEmpty(subs, user_id, tracking_id) ==
    IF user_id \in DOMAIN subs /\ tracking_id \in subs[user_id]
    THEN DictSet(subs, user_id, subs[user_id] \ {tracking_id})
    ELSE subs

\* remove_tracking: the subscription is removed from the user's set, and the
\* user's entry is deleted when the set becomes empty.
Unsubscribe(subs, user_id, tracking_id) ==
    IF user_id \in DOMAIN subs /\ tracking_id \in subs[user_id]
    THEN IF subs[user_id] \ {tracking_id} = {}
         THEN DictDel(subs, user_id)
         ELSE DictSet(subs, user_id, subs[user_id] \ {tracking_id})
    ELSE subs

\* still_subscribed always False.
still_subscribed_never(subs, tracking_id) == FALSE

\* any(tracking_id in subs for subs in self.subscribers.values())
still_subscribed(subs, tracking_id) ==
    \E user_id \in DOMAIN subs : tracking_id \in subs[user_id]

\* get_user_trackings(user_id): one entry per tracking id of the user that
\* has a configuration.
get_user_trackings(user_id) ==
    IF user_id \notin DOMAIN subscribers THEN << >>
    ELSE LET ids == SetToSeq({tracking_id \in subscribers[user_id] :
                                 tracking_id \in DOMAIN tracking_configs})
         IN [i \in 1..Len(ids) |->
                [tracking_id   |-> ids[i],
                 blockchain    |-> tracking_configs[ids[i]].blockchain,
                 token_address |-> tracking_configs[ids[i]].token_address,
                 mode          |-> tracking_configs[ids[i]].mode,
                 enabled       |-> tracking_configs[ids[i]].enabled]]

\* get_tracking_stats()
get_tracking_stats ==
    [total_trackings   |-> Cardinality(DOMAIN tracking_configs),
     active_trackings  |-> Cardinality(active_trackers),
     total_subscribers |-> Cardinality(DOMAIN subscribers),
     mode_distribution |->
         [mode \in {tracking_configs[id].mode : id \in DOMAIN tracking_configs} |->
             Cardinality({id \in DOMAIN tracking_configs :
                             tracking_configs[id].mode = mode})]]

\* add_tracking(user_id, blockchain, token_address, mode).  loop: an event
\* loop is running, so that _start_tracking can create the task (without one
\* asyncio.create_task raises RuntimeError, which _start_tracking catches).
AddTracking(user_id, blockchain, token_address, mode, loop) ==
    LET tracking_id == get_tracking_id(blockchain, token_address)
        config      == NewConfig(blockchain, token_address, mode)
        configs     == DictSet(tracking_configs, tracking_id, config)
    IN /\ tracking_configs' = configs
       /\ subscribers' = Subscribe(subscribers, user_id, tracking_id)
       /\ IF ~AlreadyTracked(tracking_id) /\ loop
          THEN start_tracking(tracking_id, configs)
          ELSE UNCHANGED <<active_trackers, tasks, orphans>>
       /\ call' = [op |-> "add_tracking", user_id |-> user_id, blockchain |-> blockchain,
                   token_address |-> token_address, mode |-> mode,
                   was_subscribed |-> (user_id \in DOMAIN subscribers
                                         /\ tracking_id \in subscribers[user_id]),
                   len_before |-> Len(get_user_trackings(user_id)),
                   result |-> TRUE]
       /\ UNCHANGED <<cache_last_block, tok, notified_before>>
       /\ UNCHANGED <<trackerVars, otherVars>>

\* remove_tracking(user_id, blockchain, token_address)
RemoveTracking(user_id, blockchain, token_address) ==
    LET tracking_id == get_tracking_id(blockchain, token_address)
        subs        == Unsubscribe(subscribers, user_id, tracking_id)
        still       == still_subscribed(subs, tracking_id)
    IN /\ subscribers' = subs
       /\ IF ~still
          THEN /\ active_trackers' = active_trackers \ {tracking_id}
               /\ tasks' = DictDel(tasks, tracking_id)
               /\ orphans' = orphans \cup Released(tracking_id, TRUE)
               /\ tracking_configs' = DictDel(tracking_configs, tracking_id)
          ELSE UNCHANGED <<active_trackers, tasks, tracking_configs, orphans>>
       /\ call' = [op |-> "remove_tracking", user_id |-> user_id,
                   blockchain |-> blockchain, token_address |-> token_address,
                   was_subscribed |-> (user_id \in DOMAIN subscribers
                                         /\ tracking_id \in subscribers[user_id]),
                   others |-> {u \in DOMAIN subscribers \ {user_id} :
                                  tracking_id \in subscribers[u]},
                   only_this |-> (user_id \in DOMAIN subscribers
                                    /\ subscribers[user_id] = {tracking_id}),
                   had_config |-> (tracking_id \in DOMAIN tracking_configs),
                   had_task |-> (tracking_id \in active_trackers),
                   result |-> TRUE]
       /\ UNCHANGED <<cache_last_block, tok, notified_before>>
       /\ UNCHANGED <<trackerVars, otherVars>>

InitManage == InitTrackerConstructed /\ InitTokenEmpty /\ call = NoCall /\ InitOther

NextManage ==
    \/ \E user_id \in Users, blockchain \in ManageBlockchains,
          token_address \in ManageAddresses, mode \in TrackingModes, loop \in BOOLEAN :
            AddTracking(user_id, blockchain, token_address, mode, loop)
    \/ \E user_id \in Users, blockchain \in ManageBlockchains,
          token_address \in ManageAddresses :
            RemoveTracking(user_id, blockchain, token_address)

\* Any sequence of add_tracking and remove_tracking calls on an empty tracker.
SpecManage == InitManage /\ [][NextManage]_vars

\* The tokens users name while the bot runs: one on a built-in chain and one
\* on a chain that BlockchainAdapters does not know.
LifecycleTokens == {<<"Ethereum", "0xToken">>, <<"Dogechain", "0xOther">>}

LifecycleIds == {get_tracking_id(token[1], token[2]) : token \in LifecycleTokens}

NextLifecycle ==
    \/ \E user_id \in Users, token \in LifecycleTokens, loop \in BOOLEAN :
            AddTracking(user_id, token[1], token[2], "both", loop)
    \/ \E user_id \in Users, token \in LifecycleTokens :
            RemoveTracking(user_id, token[1], token[2])
    \/ StartAllTracking
    \/ StopAllTracking
    \/ \E tracking_id \in LifecycleIds : TaskBegin(tracking_id)
    \/ \E task \in orphans : TaskCancelled(task)

\* The management calls of a TokenTracker interleaved with the start and the
\* end of its tasks, from an empty tracker.  The iterations of a task's loop
\* create, cancel and end no task and are left to SpecToken.
SpecLifecycle == InitManage /\ [][NextLifecycle]_vars

\* The token two users track with different modes.
SharedToken == <<"Ethereum", "0xtoken">>

NextShared ==
    \/ \E user_id \in Users, mode \in TrackingModes, loop \in BOOLEAN :
            AddTracking(user_id, SharedToken[1], SharedToken[2], mode, loop)
    \/ \E user_id \in Users : RemoveTracking(user_id, SharedToken[1], SharedToken[2])
    \/ TaskBegin(get_tracking_id(SharedToken[1], SharedToken[2]))
    \/ \E task \in orphans : TaskCancelled(task)

\* add_tracking and remove_tracking calls of several users for one token,
\* interleaved with the start and the end of its tasks.
SpecShared == InitManage /\ [][NextShared]_vars

(***************************************************************************)
(* Direct calls of the operations that read no state of the trackers:      *)
(* the adapters' get_current_block, _should_notify_transaction and the     *)
(* classification of a Transfer event.                                     *)
(***************************************************************************)
\* Token amounts of the calls are in 0..MaxAmount.
MaxAmount == 4

\* get_current_block() of EthereumAdapter, CustomEVMAdapter and
\* CustomWeb3Adapter: the height the node reports; when the adapter is not
\* connected or the RPC call raises (rpcOk false) the method logs and returns
\* 0, it does not raise.
get_current_block(kind, height, rpcOk) ==
    [raised |-> FALSE, value |-> IF rpcOk THEN height ELSE 0]

AdapterKinds == {AdapterKind(chain) : chain \in Chains}

\* The addresses of the Transfer events of the calls: the routers as the
\* source writes them, one of them in lower case, and two users.
CallAddresses ==
    dex_addresses \cup {"0x7a250d5630b4cf539739df2c5dacb4c659f2488d", "0xUserA", "0xUserB"}

\* TransactionType
TransactionTypes == {"buy", "sell", "transfer", "unknown"}

\* The configurations of the calls: each amount bound absent, 0 or positive.
CallConfigs ==
    [mode : TrackingModes, min_amount : {NoAmount, 0, 2}, max_amount : {NoAmount, 0, 3},
     enabled : BOOLEAN]

CallGetCurrentBlock ==
    /\ \E kind \in AdapterKinds, height \in 0..MaxHeight, rpcOk \in BOOLEAN :
          call' = [op |-> "get_current_block", kind |-> kind, height |-> height,
                   rpcOk |-> rpcOk, result |-> get_current_block(kind, height, rpcOk)]
    /\ UNCHANGED <<trackerVars, tokenVars, otherVars>>

CallShouldNotify ==
    /\ \E type \in TransactionTypes, amount \in 0..MaxAmount, config \in CallConfigs :
          LET transaction == [transaction_type |-> type, amount |-> amount]
          IN call' = [op |-> "should_notify_transaction", transaction |-> transaction,
                      config |-> config,
                      result |-> should_notify_transaction(transaction, config)]
    /\ UNCHANGED <<trackerVars, tokenVars, otherVars>>

CallClassify ==
    /\ \E from_addr \in CallAddresses, to_addr \in CallAddresses :
          call' = [op |-> "classify", from_addr |-> from_addr, to_addr |-> to_addr,
                   result |-> TransactionTypeOf(from_addr, to_addr)]
    /\ UNCHANGED <<trackerVars, tokenVars, otherVars>>

InitCalls == InitTrackerConstructed /\ InitTokenEmpty /\ call = NoCall /\ InitOther

NextCalls ==
    \/ CallGetCurrentBlock
    \/ CallShouldNotify
    \/ CallClassify

\* Any sequence of direct calls.
SpecCalls == InitCalls /\ [][NextCalls]_vars

(***************************************************************************)
(* The claims                                                              *)
(***************************************************************************)
\* The block cap the specification configures per chain (max_blocks_per_scan),
\* scaled to the heights of the model.
max_blocks_per_scan == 5

\* The number of positions of seq that hold x.
Count(x, seq) == Cardinality({i \in 1..Len(seq) : seq[i] = x})

\* The last _check_chain call fetched a range and returned normally.
CycleFetched == cyc.fetched /\ ~cyc.raised /\ cyc.chain \in DOMAIN last_blocks

\* A step of start()'s for loop: it records a call of _check_chain.
CheckChainStep == pc = "iter" /\ checked' = checked \cup {ChainList[idx]}

C2_CheckpointNeverDecreases ==
    [][CheckChainStep =>
         \A chain \in DOMAIN last_blocks :
             chain \in DOMAIN last_blocks' /\ last_blocks'[chain] >= last_blocks[chain]]_vars

\* C2 witness: a chain with a checkpoint was polled, the adapter reported a
\* lower height (0 included), and the checkpoint is what it was.
C2_Witness ==
    /\ cyc.had
    /\ cyc.height < cyc.before
    /\ cyc.chain \in DOMAIN last_blocks
    /\ last_blocks[cyc.chain] = cyc.before

C5_OtherChainsStillChecked ==
    (pc = "sleep5" /\ cyc.raised /\ cyc.chain \in checked) =>
        (Chains \ {cyc.chain}) \subseteq checked

C8_NoRenotification ==
    \A i \in 1..Len(tok.notified) : tok.notified[i] \notin notified_before

\* C9: within one fetched batch a transaction hash is notified once per
\* subscriber, however often it occurs in the batch.
C9_OneNotificationPerHash ==
    \A i, j \in 1..Len(tok.notified) :
        i # j => tok.notified[i] # tok.notified[j]

C11_FirstRunDoesNotStartAtZero ==
    (/\ tok.id \in DOMAIN tasks
     /\ ~tasks[tok.id].stored
     /\ tok.latest > 0) => tok.from_block > 0

\* C12: a get_current_block call whose RPC fails reports the failure to its
\* caller as an error; it does not return 0 (or any height).
C12_HeightFailureIsAnError ==
    (call.op = "get_current_block" /\ ~call.rpcOk) => call.result.raised

\* C13: _should_notify_transaction returns False when the mode is BUY_ONLY and
\* the transaction is not a BUY, and when the mode is SELL_ONLY and the
\* transaction is not a SELL, whatever the amounts.
C13_ModeFilterRejects ==
    call.op = "should_notify_transaction" =>
        /\ (call.config.mode = "buy_only" /\ call.transaction.transaction_type # "buy")
               => call.result = FALSE
        /\ (call.config.mode = "sell_only" /\ call.transaction.transaction_type # "sell")
               => call.result = FALSE

\* A BUY_ONLY rule without amount bounds was asked about a SELL and said no.
C13_Witness ==
    /\ call.op = "should_notify_transaction"
    /\ call.config.mode = "buy_only"
    /\ call.config.min_amount = NoAmount /\ call.config.max_amount = NoAmount
    /\ call.transaction.transaction_type = "sell"
    /\ call.result = FALSE

\* C14: with the mode accepting the transaction, it passes exactly when
\* (min_amount is absent or amount >= min_amount) and (max_amount is absent or
\* amount <= max_amount); a bound of 0 is a bound.
C14_AmountFilterIsTheInterval ==
    (call.op = "should_notify_transaction" /\ call.config.mode = "both") =>
        (call.result <=>
            /\ (call.config.min_amount = NoAmount
                   \/ call.transaction.amount >= call.config.min_amount)
            /\ (call.config.max_amount = NoAmount
                   \/ call.transaction.amount <= call.config.max_amount))

\* An address is a known DEX/router address, whatever its letter case.
KnownDex(address) == \E a \in dex_addresses : Lower(a) = Lower(address)

\* C15 as stated: recipient a router: SELL; sender a router: BUY; neither:
\* TRANSFER.
C15_ClassificationAsStated ==
    call.op = "classify" =>
        /\ KnownDex(call.to_addr) => call.result = "sell"
        /\ KnownDex(call.from_addr) => call.result = "buy"
        /\ (~KnownDex(call.to_addr) /\ ~KnownDex(call.from_addr)) => call.result = "transfer"

\* C15 amended: recipient a router: SELL; sender a router and recipient not:
\* BUY; neither: TRANSFER; in any letter case of the addresses.
C15_ClassificationRecipientFirst ==
    call.op = "classify" =>
        /\ KnownDex(call.to_addr) => call.result = "sell"
        /\ (KnownDex(call.from_addr) /\ ~KnownDex(call.to_addr)) => call.result = "buy"
        /\ (~KnownDex(call.to_addr) /\ ~KnownDex(call.from_addr)) => call.result = "transfer"

\* A transfer to a router written in lower case was classified SELL.
C15_Witness ==
    /\ call.op = "classify"
    /\ call.to_addr = "0x7a250d5630b4cf539739df2c5dacb4c659f2488d"
    /\ call.from_addr = "0xUserA"
    /\ call.result = "sell"

\* C17: a rule whose enabled flag is true again is matched again: its task
\* is polling, or start_all_tracking can start one (the tracking id holds no
\* task); it is never left with a task that has returned.
C17_ReenabledRuleIsPolled ==
    \A tracking_id \in DOMAIN tracking_configs :
        (tracking_configs[tracking_id].enabled /\ tracking_id \in active_trackers)
            => tasks[tracking_id].pc # "exited"

\* The tracking id the call names: blockchain + ':' + lower(address).
CallTrackingId == call.blockchain \o ":" \o Lower(call.token_address)

\* The positions of a get_user_trackings result that hold the tracking id.
EntriesOf(trackings, tracking_id) ==
    {i \in 1..Len(trackings) : trackings[i].tracking_id = tracking_id}

\* The removing user was the last subscriber of the tracking id.
RemovedLastSubscriber == call.was_subscribed /\ call.others = {}

\* C18: remove_tracking deletes the configuration and cancels the task exactly
\* when the removing user was the last subscriber; while another user
\* subscribes, configuration and task remain.  The removing user has no entry
\* for the tracking id afterwards, and no entry at all if it was the only one.
C18_RemovedWithLastSubscriber ==
    call.op = "remove_tracking" =>
        /\ call.had_config =>
               ((CallTrackingId \notin DOMAIN tracking_configs) <=> RemovedLastSubscriber)
        /\ call.had_task =>
               ((CallTrackingId \notin active_trackers) <=> RemovedLastSubscriber)
        /\ EntriesOf(get_user_trackings(call.user_id), CallTrackingId) = {}
        /\ call.only_this => get_user_trackings(call.user_id) = << >>

\* The sole subscriber of a tracking id with a task removed it: configuration
\* and task are gone.
C18_Witness ==
    /\ call.op = "remove_tracking"
    /\ RemovedLastSubscriber /\ call.only_this /\ call.had_config /\ call.had_task
    /\ CallTrackingId \notin DOMAIN tracking_configs
    /\ CallTrackingId \notin active_trackers
    /\ tracking_configs # EmptyDict

\* C19: after add_tracking returns True the user's trackings hold exactly one
\* entry for blockchain + ':' + lower(address), with that blockchain, the
\* lower-cased address and the given mode; adding a token the user already
\* tracks, in any letter case, adds no entry.
C19_OneEntryPerToken ==
    (call.op = "add_tracking" /\ call.result) =>
        LET trackings == get_user_trackings(call.user_id)
            entries   == EntriesOf(trackings, CallTrackingId)
        IN /\ Cardinality(entries) = 1
           /\ \A i \in entries :
                 /\ trackings[i].blockchain = call.blockchain
                 /\ trackings[i].token_address = Lower(call.token_address)
                 /\ trackings[i].mode = call.mode
           /\ Len(trackings) = (IF call.was_subscribed THEN call.len_before
                                 ELSE call.len_before + 1)

\* A user who tracks two tokens added one of them again, written in mixed
\* case, with another mode.
C19_Witness ==
    /\ call.op = "add_tracking" /\ call.result
    /\ call.was_subscribed
    /\ call.token_address = "0xToken"
    /\ call.mode = "sell_only"
    /\ Len(get_user_trackings(call.user_id)) = 2

\* The sum of the counts of a mode distribution.
RECURSIVE SumOf(_)
SumOf(counts) ==
    IF DOMAIN counts = {} THEN 0
    ELSE LET mode == CHOOSE m \in DOMAIN counts : TRUE
         IN counts[mode] + SumOf([m \in DOMAIN counts \ {mode} |-> counts[m]])

\* C20: after any sequence of add_tracking and remove_tracking calls on an
\* empty tracker, total_trackings is the number of tracking ids with a
\* subscriber, total_subscribers the number of users with a tracking, and the
\* mode counts sum to total_trackings; the configured ids are exactly the
\* subscribed ones and no subscriber set is empty.
C20_StatsCountSubscribedTrackings ==
    LET stats      == get_tracking_stats
        subscribed == UNION {subscribers[u] : u \in DOMAIN subscribers}
    IN /\ stats.total_trackings = Cardinality(subscribed)
       /\ stats.total_subscribers =
              Cardinality({u \in Users : u \in DOMAIN subscribers /\ subscribers[u] # {}})
       /\ SumOf(stats.mode_distribution) = stats.total_trackings
       /\ DOMAIN tracking_configs = subscribed
       /\ \A u \in DOMAIN subscribers : subscribers[u] # {}

\* After a removal two users still track two tokens between them, in two modes.
C20_Witness ==
    /\ call.op = "remove_tracking" /\ call.was_subscribed
    /\ get_tracking_stats.total_trackings = 2
    /\ get_tracking_stats.total_subscribers = 2
    /\ Cardinality(DOMAIN get_tracking_stats.mode_distribution) = 2

\* C21: a failure never stops a token's tracking permanently.  A task that has
\* ended is never started again while active_trackers holds it, so the claim
\* requires that the task of an enabled rule with a subscriber has not ended.
C21_FailureNeverEndsTracking ==
    \A tracking_id \in active_trackers :
        ( /\ tracking_id \in DOMAIN tracking_configs
          /\ tracking_configs[tracking_id].enabled
          /\ SubscribersOf(tracking_id) # {} )
        => tasks[tracking_id].pc # "ended"

\* The _track_token tasks of a tracking id that run and have not been
\* cancelled: the one active_trackers holds and those it no longer holds.
LiveTasks(tracking_id) ==
    (IF tracking_id \in DOMAIN tasks /\ tasks[tracking_id].pc \in {"begin", "loop"}
     THEN 1 ELSE 0)
    + Cardinality({task \in orphans : task.tracking_id = tracking_id /\ ~task.cancelled})

\* C22: under every interleaving of add_tracking, remove_tracking,
\* start_all_tracking, stop_all_tracking and the tasks' steps, no tracking id
\* has two live _track_token tasks.
C22_AtMostOneLiveTask ==
    \A tracking_id \in LifecycleIds : LiveTasks(tracking_id) <= 1

\* A task has been cancelled and has not ended yet while a new task runs for
\* the same tracking id.
C22_Witness ==
    \E task \in orphans :
        /\ task.cancelled
        /\ task.tracking_id \in DOMAIN tasks
        /\ tasks[task.tracking_id].pc = "loop"

\* C26: add_tracking for a blockchain that get_adapter knows no adapter for
\* reports failure and leaves tracking_configs, subscribers and
\* active_trackers unchanged.
C26_UnsupportedChainRejected ==
    [][ \A user_id \in Users, token \in LifecycleTokens, loop \in BOOLEAN :
          ( /\ AddTracking(user_id, token[1], token[2], "both", loop)
            /\ get_adapter(custom_adapters, token[1]) = {[outcome |-> "ValueError"]} )
          => /\ call'.result = FALSE
             /\ UNCHANGED <<tracking_configs, subscribers, active_trackers>> ]_vars

C29_GetReturnsWhatWasSet ==
    call.op = "cache_get" =>
        /\ call.expect.state = "set" => call.result = call.expect.value
        /\ call.expect.state = "deleted" => call.result = CacheNone

\* C24: after remove_custom_chain has returned True for a chain (and the chain
\* has not been added again), no BlockchainAdapters instance returns the
\* chain's adapter from get_adapter.
C24_RemovedChainHasNoAdapter ==
    (call.op = "get_adapter" /\ call.was_removed) => call.result.outcome # "adapter"

\* C25: add_custom_chain rejects a configuration without rpc_url: it returns
\* False and registers no adapter for it.
C25_MissingRpcUrlRejected ==
    [][ \A name \in ChainNames, config \in ChainConfigs, save \in BOOLEAN :
          (AddCustomChain(name, config, save) /\ "rpc_url" \notin DOMAIN config)
          => /\ call'.result = FALSE
             /\ UNCHANGED <<custom_chains, chain_configs, config_file>> ]_vars

\* C27: add_custom_chain with an enabled configuration of type 'evm' or
\* 'web3' returns True and the chain is listed and retrievable; with a
\* disabled configuration or an unknown type it returns False and changes
\* nothing of the registry; after remove_custom_chain returns True the chain
\* is neither listed nor retrievable.
C27_AddAndRemoveAsStated ==
    [][ /\ \A name \in ChainNames, config \in ChainConfigs, save \in BOOLEAN :
             AddCustomChain(name, config, save)
             => /\ ( /\ DictGet(config, "enabled", TRUE)
                     /\ DictGet(config, "type", "none") \in {"evm", "web3"} )
                   => /\ call'.result = TRUE
                      /\ name \in list_custom_chains(custom_chains')
                      /\ get_custom_chain(custom_chains', name) =
                             [found |-> TRUE, adapter |-> NewAdapter(config)]
                /\ ( \/ ~DictGet(config, "enabled", TRUE)
                     \/ DictGet(config, "type", "evm") \notin {"evm", "web3"} )
                   => /\ call'.result = FALSE
                      /\ UNCHANGED <<custom_chains, chain_configs, config_file>>
        /\ \A name \in ChainNames, save \in BOOLEAN :
             (RemoveCustomChain(name, save) /\ call'.result)
             => /\ name \notin list_custom_chains(custom_chains')
                /\ ~get_custom_chain(custom_chains', name).found ]_vars

\* A chain has been added to a registry that holds another chain.
C27_Witness ==
    /\ call.op = "add_custom_chain"
    /\ call.result
    /\ call.name \in DOMAIN custom_chains
    /\ DOMAIN custom_chains = ChainNames

\* The step is a call that has written the configuration file.
SavedFile ==
    \/ \E name \in ChainNames, config \in ChainConfigs :
          AddCustomChain(name, config, TRUE) /\ call'.result
    \/ \E name \in ChainNames : RemoveCustomChain(name, TRUE)
    \/ \E name \in ChainNames : DisableChain(name) /\ call'.result
    \/ \E name \in ChainNames : EnableChain(name) /\ call'.result

C31_ModeNotifiesOnlyItsTypes ==
    (call.op = "should_notify_transaction" /\ call.result) =>
        /\ call.config.mode = "buy_only" => call.transaction.transaction_type = "buy"
        /\ call.config.mode = "sell_only" => call.transaction.transaction_type = "sell"
        /\ call.config.mode = "both" => call.transaction.transaction_type \in {"buy", "sell"}

\* C32: the persisted checkpoint last_block:<tracking_id> never decreases
\* from one iteration of _track_token to the next, also when events of the
\* fetched batch are dropped (the chain's height being no lower than in the
\* iteration before).
C32_SavedCheckpointNeverDecreases ==
    [][ \A tracking_id \in TrackingIds :
          ( /\ tracking_id \in DOMAIN cache_last_block
            /\ tracking_id \in DOMAIN cache_last_block'
            /\ tok'.latest >= tok.latest )
          => cache_last_block'[tracking_id] >= cache_last_block[tracking_id] ]_vars

\* C33: starting from an empty last_blocks, a _check_chain call that returns
\* normally and sees the chain higher than the chain's first poll saw it
\* fetches the new blocks (it calls adapter.get_transactions).
C33_GrowthAfterFirstPollIsFetched ==
    ( /\ cyc.chain \in DOMAIN call.first
      /\ ~cyc.raised
      /\ cyc.height > call.first[cyc.chain] )
    => cyc.fetched

C35_AddTrackingKeepsOthersFilter ==
    [][ \A a \in Users :
          ( /\ call'.op = "add_tracking"
            /\ call'.user_id # a
            /\ a \in SubscribersOf(get_tracking_id(call'.blockchain, call'.token_address)) )
          => /\ get_user_trackings(a)' = get_user_trackings(a)
             /\ \A tracking_id \in DOMAIN tasks' \cap DOMAIN tracking_configs' :
                   tasks'[tracking_id].pc = "loop"
                   => tasks'[tracking_id].config = tracking_configs'[tracking_id] ]_vars

\* The tracking ids whose task is running: created or in its polling loop.
Polled == {tracking_id \in DOMAIN tasks : tasks[tracking_id].pc \in {"begin", "loop"}}

\* C36: every entry of active_trackers is a running task, the statistics'
\* active_trackings is the number of trackings being polled, and an enabled
\* tracking whose task has ended is one that start_all_tracking starts.
C36_ActiveTrackersAreRunning ==
    /\ active_trackers \subseteq Polled
    /\ get_tracking_stats.active_trackings = Cardinality(Polled)
    /\ \A tracking_id \in DOMAIN tracking_configs \cap DOMAIN tasks :
          ( /\ tracking_configs[tracking_id].enabled
            /\ tasks[tracking_id].pc \in {"ended", "exited"} )
          => tracking_id \in Starting

\* C37: after any sequence of add_custom_chain, remove_custom_chain,
\* update_chain_config, enable_chain and disable_chain, a chain has an adapter
\* in custom_chains if and only if its stored configuration is enabled.
C37_AdapterIffConfigEnabled ==
    \A name \in ChainNames :
        name \in DOMAIN custom_chains
        <=> ( /\ name \in DOMAIN chain_configs
              /\ DictGet(chain_configs[name], "enabled", TRUE) )

\* The file holds a configuration of the chain that disable_chain has marked
\* disabled, and the chain has not been added again since.
DisabledInFile(name) ==
    /\ name \in DOMAIN config_file
    /\ ~DictGet(config_file[name], "enabled", TRUE)
    /\ name \notin DOMAIN custom_chains

\* C38: the configuration of a disabled chain is never lost from the file,
\* whatever reloads and saves follow, and enable_chain of a chain the file
\* holds as disabled returns True and registers the chain again with the
\* adapter of its stored configuration.
C38_DisabledChainCanBeEnabled ==
    [][ \A name \in ChainNames :
          DisabledInFile(name)
          => /\ name \in DOMAIN config_file'
             /\ EnableChain(name)
                => /\ call'.result
                   /\ name \in DOMAIN custom_chains'
                   /\ custom_chains'[name] = NewAdapter(config_file[name]) ]_vars

\* C39: the body of a handler behind admin_required runs only for the caller
\* whose id is the stored admin_id, with a database and the setting present;
\* and when an admin is stored, the stored admin_id becomes another user's id
\* only by a /set_admin_id that the stored admin executed.
C39_OnlyAdminRunsAndChangesAdmin ==
    [][ /\ (call'.op \in {"start", "set_admin_id"} /\ call'.ran)
           => /\ db_initialized'
              /\ "admin_id" \in DOMAIN settings
              /\ call'.caller = settings["admin_id"]
        /\ \A user \in TelegramUsers :
              ( /\ "admin_id" \in DOMAIN settings
                /\ settings["admin_id"] # user
                /\ settings'["admin_id"] = user )
              => /\ call'.op = "set_admin_id"
                 /\ call'.ran
                 /\ call'.caller = settings["admin_id"] ]_vars

============================================================================
